---- MODULE Spec2Model ----
(***************************************************************************)
(* Model of the line-oriented file handle (fileInstanceType) of the        *)
(* filesystem package and of the free function GetFileContents that is     *)
(* built on it.  A file is a sequence of bytes; the handle wraps one       *)
(* *os.File opened with O_RDWR|O_CREATE|O_APPEND.                           *)
(***************************************************************************)
EXTENDS Integers, Sequences, FiniteSets, TLC

\* Largest file size (in bytes) the model lets a write produce.
MaxLen == 4
\* Longest argument handed to WriteBytes / WriteString / WriteLine.
MaxArg == 1
MaxOther == 1

NL == "\n"
Alphabet == {"a", "b", NL}
Paths == {"f"}

VARIABLES
    fs,         \* the file system: path -> [exists, data]
    fd,         \* shared.fileDescriptor: [state, path, pos]
    pc,         \* position inside a running RemoveFirstLine ("idle" if none)
    buffer,     \* RemoveFirstLine's bytes.Buffer
    lastOp,     \* name of the operation called last
    lastArg,    \* its argument: the bytes of a write, <<fileName>>, <<>> if none
    lastErr,    \* its outcome: "nil", an error value, "panic", "pending"
    lastRes,    \* the bytes it returned (<<>> for a nil slice)
    orig,       \* history: file content when the running RemoveFirstLine began
    lines,      \* history: per path, the lines written by WriteLine since creation
    linesOnly,  \* history: per path, TRUE while WriteLine alone changed the file
    early,      \* history: bytes another writer appended between the read and
                \* the truncation of the running RemoveFirstLine
    disturbed,  \* history: how many bytes another writer appended at another
                \* moment of that call
    osFailed,   \* history: a call the last operation made on the OS failed
    held,       \* history: handles the last free function opened and did not close
    goos        \* runtime.GOOS

vars == <<fs, fd, pc, buffer, lastOp, lastArg, lastErr, lastRes, orig, lines, linesOnly,
          early, disturbed, osFailed, held, goos>>

---------------------------------------------------------------------------
\* Byte strings

RECURSIVE SeqsUpTo(_)
SeqsUpTo(n) ==
    IF n = 0 THEN {<<>>}
    ELSE LET shorter == SeqsUpTo(n - 1)
         IN  shorter \cup {Append(s, c) : s \in {t \in shorter : Len(t) = n - 1}, c \in Alphabet}

Args == SeqsUpTo(MaxArg)

\* bytes.IndexByte(b, '\n') + 1, or 0 when b holds no newline
IndexNL(b) ==
    IF \E i \in 1..Len(b) : b[i] = NL
    THEN CHOOSE i \in 1..Len(b) : b[i] = NL /\ \A j \in 1..(i - 1) : b[j] # NL
    ELSE 0

\* bytes.Buffer.ReadBytes('\n'): the bytes up to and including the first
\* newline (all of them, with io.EOF, when there is none) and what stays
\* in the buffer.
ReadBytesKeepingDelimiter(b) ==
    LET i == IndexNL(b)
    IN  IF i = 0 THEN [line |-> b, rest |-> <<>>, eof |-> TRUE]
        ELSE [line |-> SubSeq(b, 1, i - 1), rest |-> SubSeq(b, i, Len(b)), eof |-> FALSE]

\* a ReadBytes that reads nothing when the buffer holds no newline
ReadBytesKeepingUnterminated(b) ==
    LET i == IndexNL(b)
    IN  IF i = 0 THEN [line |-> <<>>, rest |-> b, eof |-> TRUE]
        ELSE [line |-> SubSeq(b, 1, i), rest |-> SubSeq(b, i + 1, Len(b)), eof |-> FALSE]

ReadBytes(b) ==
    LET i == IndexNL(b)
    IN  IF i = 0 THEN [line |-> b, rest |-> <<>>, eof |-> TRUE]
        ELSE [line |-> SubSeq(b, 1, i), rest |-> SubSeq(b, i + 1, Len(b)), eof |-> FALSE]

\* firstLine[:len(firstLine) - 1], for a firstLine that is not empty
DropNothing(b) == b

DropLast(b) == SubSeq(b, 1, Len(b) - 1)

\* bytes.TrimRight(b, "\n"): every trailing newline is removed
RECURSIVE TrimRight(_)
TrimRight(b) ==
    IF Len(b) > 0 /\ b[Len(b)] = NL THEN TrimRight(SubSeq(b, 1, Len(b) - 1)) ELSE b

---------------------------------------------------------------------------
\* The operating system's part

NoFile == [exists |-> FALSE, data |-> <<>>]
NilFd == [state |-> "nil", path |-> "", pos |-> 0]

\* os.OpenFile(name, O_RDWR|O_CREATE|O_APPEND, perm): the file afterwards
OpenFileTruncating(file) == [exists |-> TRUE, data |-> <<>>]

OpenFile(file) == IF file.exists THEN file ELSE [exists |-> TRUE, data |-> <<>>]

\* write(2) on a descriptor opened with O_APPEND: the offset is moved to the
\* end of the file before the bytes are written.
FileWriteAtOffset(data, pos, b) ==
    [i \in 1..(IF pos + Len(b) > Len(data) THEN pos + Len(b) ELSE Len(data)) |->
        IF i > pos /\ i <= pos + Len(b) THEN b[i - pos] ELSE data[i]]

FileWrite(data, pos, b) == data \o b

Content == fs[fd.path].data


\* what a write that fails may have put into the file before failing
ProperPrefixes(b) == {SubSeq(b, 1, k) : k \in 0..(Len(b) - 1)}

\* what a call leaves for its caller to see
Outcome(op, arg, err, res) ==
    /\ lastOp' = op
    /\ lastArg' = arg
    /\ lastErr' = err
    /\ lastRes' = res

\* the outcome of a call that returns the error of the OS call that failed,
\* if one did, and leaves no handle of its own behind
Return(op, arg, err, res) ==
    /\ Outcome(op, arg, err, res)
    /\ osFailed' = (err \notin {"nil", "pending", "panic"})
    /\ held' = 0
    /\ UNCHANGED goos

\* no call is running and the program has not been aborted by a panic
Ready == pc = "idle" /\ lastErr # "panic"

Panic(op, arg) ==
    /\ Return(op, arg, "panic", <<>>)
    /\ orig' = <<>> /\ early' = <<>> /\ disturbed' = 0
    /\ UNCHANGED <<fs, fd, pc, buffer, lines, linesOnly>>

\* a call on a descriptor that Close has released: the os package answers
\* os.ErrClosed without touching the file
Closed(op, arg) ==
    /\ Return(op, arg, "ErrClosed", <<>>)
    /\ orig' = <<>> /\ early' = <<>> /\ disturbed' = 0
    /\ UNCHANGED <<fs, fd, pc, buffer, lines, linesOnly>>

---------------------------------------------------------------------------
\* fileInstanceType

Init ==
    /\ fs \in [Paths -> {NoFile} \cup {[exists |-> TRUE, data |-> d] : d \in Args}]
    /\ fd = NilFd
    /\ pc = "idle"
    /\ buffer = <<>>
    /\ lastOp = "none"
    /\ lastArg = <<>>
    /\ lastErr = "nil"
    /\ lastRes = <<>>
    /\ orig = <<>>
    /\ lines = [p \in Paths |-> <<>>]
    /\ linesOnly = [p \in Paths |-> FALSE]
    /\ early = <<>>
    /\ disturbed = 0
    /\ osFailed = FALSE
    /\ held = 0
    /\ goos = "linux"

Open(fileName) ==
    /\ Ready
    /\ orig' = <<>> /\ early' = <<>> /\ disturbed' = 0
    /\ UNCHANGED <<pc, buffer>>
    /\ \/ /\ Return("Open", <<fileName>>, "EIO", <<>>)
          /\ UNCHANGED <<fs, fd, lines, linesOnly>>
       \/ /\ fs' = [fs EXCEPT ![fileName] = OpenFile(fs[fileName])]
          /\ fd' = [state |-> "open", path |-> fileName, pos |-> 0]
          /\ IF fs[fileName].exists /\ fs'[fileName] = fs[fileName]
             THEN UNCHANGED <<lines, linesOnly>>
             ELSE /\ lines' = [lines EXCEPT ![fileName] = <<>>]
                  /\ linesOnly' = [linesOnly EXCEPT ![fileName] = ~fs[fileName].exists]
          /\ Return("Open", <<fileName>>, "nil", <<>>)

Close ==
    /\ Ready
    /\ \/ /\ fd.state = "nil"
          /\ Panic("Close", <<>>)
       \/ /\ fd.state # "nil"
          /\ fd' = [fd EXCEPT !.state = "closed"]
          /\ Return("Close", <<>>, "nil", <<>>)
          /\ orig' = <<>> /\ early' = <<>> /\ disturbed' = 0
          /\ UNCHANGED <<fs, pc, buffer, lines, linesOnly>>

\* shared.fileDescriptor.Write(b) on an open descriptor, called by op with
\* argument arg; isLine tells that b is arg followed by a newline.
Write(op, arg, b, isLine) ==
    /\ fd.state = "open"
    /\ Len(Content) + Len(b) <= MaxLen
    /\ orig' = <<>> /\ early' = <<>> /\ disturbed' = 0
    /\ UNCHANGED <<pc, buffer>>
    /\ \E failed \in BOOLEAN :
       \E written \in (IF failed THEN ProperPrefixes(b) \cup {<<>>} ELSE {b}) :
          LET data == FileWrite(Content, fd.pos, written)
          IN  /\ fs' = [fs EXCEPT ![fd.path].data = data]
              /\ fd' = [fd EXCEPT !.pos = IF written = <<>> THEN fd.pos ELSE Len(data)]
              /\ Return(op, arg, IF failed THEN "EIO" ELSE "nil", <<>>)
              /\ IF written = <<>>
                 THEN UNCHANGED <<lines, linesOnly>>
                 ELSE IF isLine /\ ~failed /\ linesOnly[fd.path]
                 THEN /\ lines' = [lines EXCEPT ![fd.path] = Append(@, arg)]
                      /\ UNCHANGED linesOnly
                 ELSE /\ linesOnly' = [linesOnly EXCEPT ![fd.path] = FALSE]
                      /\ lines' = [lines EXCEPT ![fd.path] = <<>>]

WriteBytes(bytes) ==
    /\ Ready
    /\ \/ /\ fd.state = "nil"
          /\ Panic("WriteBytes", bytes)
       \/ /\ fd.state = "closed"
          /\ Closed("WriteBytes", bytes)
       \/ Write("WriteBytes", bytes, bytes, FALSE)

WriteString(stringToWrite) ==
    /\ Ready
    /\ \/ /\ fd.state = "nil"
          /\ Panic("WriteString", stringToWrite)
       \/ /\ fd.state = "closed"
          /\ Closed("WriteString", stringToWrite)
       \/ Write("WriteString", stringToWrite, stringToWrite, FALSE)

WriteLine(lineToWrite) ==
    /\ Ready
    /\ \/ /\ fd.state = "nil"
          /\ Panic("WriteLine", lineToWrite)
       \/ /\ fd.state = "closed"
          /\ Closed("WriteLine", lineToWrite)
       \/ Write("WriteLine", lineToWrite, lineToWrite \o <<NL>>, TRUE)

GetFileContents ==
    /\ Ready
    /\ \/ /\ fd.state = "nil"
          /\ Panic("GetFileContents", <<>>)
       \/ /\ fd.state = "closed"
          /\ Closed("GetFileContents", <<>>)
       \/ /\ fd.state = "open"
          /\ orig' = <<>> /\ early' = <<>> /\ disturbed' = 0
          /\ UNCHANGED <<fs, fd, pc, buffer, lines, linesOnly>>
          /\ \/ Return("GetFileContents", <<>>, "EIO", <<>>)
             \/ Return("GetFileContents", <<>>, "nil", TrimRight(Content))

GetFirstLine ==
    /\ Ready
    /\ \/ /\ fd.state = "nil"      \* (*os.File)(nil).Stat() answers os.ErrInvalid
          /\ Return("GetFirstLine", <<>>, "ErrInvalid", <<>>)
          /\ orig' = <<>> /\ early' = <<>> /\ disturbed' = 0
          /\ UNCHANGED <<fs, fd, pc, buffer, lines, linesOnly>>
       \/ /\ fd.state = "closed"
          /\ Closed("GetFirstLine", <<>>)
       \/ /\ fd.state = "open"
          /\ orig' = <<>> /\ early' = <<>> /\ disturbed' = 0
          /\ UNCHANGED <<fs, pc, buffer, lines, linesOnly>>
          /\ \/ /\ Return("GetFirstLine", <<>>, "EIO", <<>>)
                /\ \/ UNCHANGED fd                                 \* Stat or first Seek failed
                   \/ \E n \in 0..Len(Content) : fd' = [fd EXCEPT !.pos = n]  \* io.Copy or last Seek failed
             \/ LET firstLine == ReadBytes(Content).line
                IN  /\ fd' = [fd EXCEPT !.pos = 0]
                    /\ IF Len(firstLine) = 0
                       THEN Return("GetFirstLine", <<>>, "panic", <<>>)   \* firstLine[:-1]
                       ELSE Return("GetFirstLine", <<>>, "nil", DropLast(firstLine))

---------------------------------------------------------------------------
\* RemoveFirstLine, one step per call it makes on the descriptor

\* a step of RemoveFirstLine failed: the error is returned at once
Fail ==
    /\ pc' = "idle"
    /\ buffer' = <<>>
    /\ Return("RemoveFirstLine", <<>>, "EIO", <<>>)

Step(next) ==
    /\ pc' = next
    /\ Return("RemoveFirstLine", <<>>, "pending", <<>>)

RemoveFirstLineStat ==
    /\ Ready
    /\ \/ /\ fd.state = "nil"      \* (*os.File)(nil).Stat() answers os.ErrInvalid
          /\ Return("RemoveFirstLine", <<>>, "ErrInvalid", <<>>)
          /\ orig' = <<>> /\ early' = <<>> /\ disturbed' = 0
          /\ UNCHANGED <<fs, fd, pc, buffer, lines, linesOnly>>
       \/ /\ fd.state = "closed"
          /\ Closed("RemoveFirstLine", <<>>)
       \/ /\ fd.state = "open"
          /\ orig' = Content /\ early' = <<>> /\ disturbed' = 0
          /\ UNCHANGED <<fs, fd, lines, linesOnly>>
          /\ \/ Fail
             \/ Step("seek1") /\ UNCHANGED buffer

RemoveFirstLineSeek ==
    /\ pc \in {"seek1", "seek2", "seek3"}
    /\ UNCHANGED <<fs, orig, early, disturbed, lines, linesOnly>>
    /\ \/ Fail /\ UNCHANGED fd
       \/ /\ fd' = [fd EXCEPT !.pos = 0]
          /\ CASE pc = "seek1" -> Step("read") /\ UNCHANGED buffer
               [] pc = "seek2" -> Step("write") /\ UNCHANGED buffer
               [] pc = "seek3" -> /\ pc' = "idle"
                                  /\ buffer' = <<>>
                                  /\ Return("RemoveFirstLine", <<>>, "nil", <<>>)

\* io.Copy(buffer, fd) followed by buffer.ReadBytes('\n')
RemoveFirstLineRead ==
    /\ pc = "read"
    /\ UNCHANGED <<fs, orig, early, disturbed, lines, linesOnly>>
    /\ \/ /\ Fail
          /\ \E n \in fd.pos..Len(Content) : fd' = [fd EXCEPT !.pos = n]
       \/ /\ fd' = [fd EXCEPT !.pos = Len(Content)]
          /\ buffer' = ReadBytes(SubSeq(Content, fd.pos + 1, Len(Content))).rest
          /\ Step("truncate")

RemoveFirstLineWithoutTruncate ==
    /\ pc = "truncate"
    /\ UNCHANGED <<fd, orig, early, disturbed>>
    /\ \/ Fail /\ UNCHANGED <<fs, lines, linesOnly>>
       \/ /\ UNCHANGED <<fs, buffer, lines, linesOnly>>
          /\ Step("seek2")

RemoveFirstLineTruncate ==
    /\ pc = "truncate"
    /\ UNCHANGED <<fd, orig, early, disturbed>>
    /\ \/ Fail /\ UNCHANGED <<fs, lines, linesOnly>>
       \/ /\ fs' = [fs EXCEPT ![fd.path].data = <<>>]
          /\ linesOnly' = [linesOnly EXCEPT ![fd.path] = FALSE]
          /\ lines' = [lines EXCEPT ![fd.path] = <<>>]
          /\ UNCHANGED buffer
          /\ Step("seek2")

\* io.Copy(fd, buffer): buffer.WriteTo(fd) calls fd.Write once, and only
\* when the buffer is not empty
RemoveFirstLineWrite ==
    /\ pc = "write"
    /\ UNCHANGED <<orig, early, disturbed, lines, linesOnly>>
    /\ \/ /\ buffer = <<>>
          /\ UNCHANGED <<fs, fd, buffer>>
          /\ Step("sync")
       \/ /\ buffer # <<>>
          /\ \E written \in ProperPrefixes(buffer) :
                LET data == FileWrite(Content, fd.pos, written)
                IN  /\ fs' = [fs EXCEPT ![fd.path].data = data]
                    /\ fd' = [fd EXCEPT !.pos = IF written = <<>> THEN fd.pos ELSE Len(data)]
                    /\ Fail
       \/ /\ buffer # <<>>
          /\ LET data == FileWrite(Content, fd.pos, buffer)
             IN  /\ fs' = [fs EXCEPT ![fd.path].data = data]
                 /\ fd' = [fd EXCEPT !.pos = Len(data)]
          /\ buffer' = <<>>
          /\ Step("sync")

RemoveFirstLineSync ==
    /\ pc = "sync"
    /\ UNCHANGED <<fs, fd, orig, early, disturbed, lines, linesOnly>>
    /\ \/ Fail
       \/ Step("seek3") /\ UNCHANGED buffer

---------------------------------------------------------------------------
\* The free function GetFileContents(fileName): a handle of its own is
\* opened on fileName, read and closed.

GetFileContentsByName(fileName) ==
    /\ Ready
    /\ orig' = <<>> /\ early' = <<>> /\ disturbed' = 0
    /\ UNCHANGED <<fd, pc, buffer>>
    /\ \/ /\ Return("GetFileContentsByName", <<fileName>>, "EIO", <<>>)      \* file.Open failed
          /\ UNCHANGED <<fs, lines, linesOnly>>
       \/ /\ fs' = [fs EXCEPT ![fileName] = OpenFile(fs[fileName])]
          /\ IF fs[fileName].exists /\ fs'[fileName] = fs[fileName]
             THEN UNCHANGED <<lines, linesOnly>>
             ELSE /\ lines' = [lines EXCEPT ![fileName] = <<>>]
                  /\ linesOnly' = [linesOnly EXCEPT ![fileName] = ~fs[fileName].exists]
          /\ \/ /\ Outcome("GetFileContentsByName", <<fileName>>, "EIO", <<>>)   \* file.GetFileContents
                /\ osFailed' = TRUE                         \* failed: return without file.Close()
                /\ held' = 1
                /\ UNCHANGED goos
             \/ Return("GetFileContentsByName", <<fileName>>, "nil", TrimRight(fs'[fileName].data))

\* AppendLineToFile(fileName, lineToWrite, permissions): the error returned is
\* the one of os.OpenFile; what file.WriteString and the deferred file.Close
\* answer is dropped. On a nil *os.File both answer os.ErrInvalid.
AppendLineToFile(fileName, lineToWrite) ==
    /\ Ready
    /\ Len(fs[fileName].data) + Len(lineToWrite) <= MaxLen
    /\ orig' = <<>> /\ early' = <<>> /\ disturbed' = 0
    /\ UNCHANGED <<fd, pc, buffer>>
    /\ \/ /\ Return("AppendLineToFile", <<fileName>> \o lineToWrite, "EIO", <<>>)   \* os.OpenFile failed
          /\ UNCHANGED <<fs, lines, linesOnly>>
       \/ \E writeFailed \in (IF lineToWrite = <<>> THEN {FALSE} ELSE BOOLEAN) :
          \E written \in (IF writeFailed THEN ProperPrefixes(lineToWrite)
                                         ELSE {lineToWrite}) :
             LET file == OpenFile(fs[fileName])
             IN  /\ fs' = [fs EXCEPT ![fileName] =
                                 [file EXCEPT !.data = FileWrite(@, Len(@), written)]]
                 /\ IF fs'[fileName] = fs[fileName]
                    THEN UNCHANGED <<lines, linesOnly>>
                    ELSE /\ lines' = [lines EXCEPT ![fileName] = <<>>]
                         /\ linesOnly' = [linesOnly EXCEPT ![fileName] = FALSE]
                 /\ Outcome("AppendLineToFile", <<fileName>> \o lineToWrite, "nil", <<>>)
                 /\ osFailed' = writeFailed
                 /\ held' = 0
                 /\ UNCHANGED goos

---------------------------------------------------------------------------
\* Another writer: a second fileInstanceType opened on the same path, whose
\* WriteBytes appends (O_APPEND) between two steps of a RemoveFirstLine of this
\* one, MaxOther bytes a call at most. (Between two calls its append changes
\* the file as a WriteBytes of this instance does.)

OtherWriterAppend(bytes) ==
    /\ pc # "idle"
    /\ fd.state = "open"
    /\ bytes # <<>>
    /\ Len(early) + disturbed + Len(bytes) <= MaxOther
    \* the file stays within MaxLen once the buffer is written back
    /\ Len(Content) + Len(bytes)
         + (IF pc \in {"seek2", "write"} THEN Len(buffer) ELSE 0) <= MaxLen
    /\ fs' = [fs EXCEPT ![fd.path].data = FileWrite(@, Len(@), bytes)]
    /\ linesOnly' = [linesOnly EXCEPT ![fd.path] = FALSE]
    /\ lines' = [lines EXCEPT ![fd.path] = <<>>]
    /\ IF pc = "truncate"
       THEN early' = early \o bytes /\ UNCHANGED disturbed
       ELSE disturbed' = disturbed + Len(bytes) /\ UNCHANGED early
    /\ UNCHANGED <<fd, pc, buffer, lastOp, lastArg, lastErr, lastRes, orig,
                   osFailed, held, goos>>

---------------------------------------------------------------------------
Next ==
    \/ \E fileName \in Paths : Open(fileName)
    \/ Close
    \/ \E bytes \in Args : WriteBytes(bytes)
    \/ \E stringToWrite \in Args : WriteString(stringToWrite)
    \/ \E lineToWrite \in Args : WriteLine(lineToWrite)
    \/ GetFileContents
    \/ GetFirstLine
    \/ RemoveFirstLineStat
    \/ RemoveFirstLineSeek
    \/ RemoveFirstLineRead
    \/ RemoveFirstLineTruncate
    \/ RemoveFirstLineWrite
    \/ RemoveFirstLineSync
    \/ \E fileName \in Paths : GetFileContentsByName(fileName)
    \/ \E fileName \in Paths, lineToWrite \in Args : AppendLineToFile(fileName, lineToWrite)

Spec == Init /\ [][Next]_vars

\* the same program with a second writer on the file
NextConcurrent ==
    \/ Next
    \/ \E bytes \in Args : OtherWriterAppend(bytes)

SpecConcurrent == Init /\ [][NextConcurrent]_vars

---------------------------------------------------------------------------
\* The free functions on paths. A path is the sequence of its characters, the
\* suffix ".tmp" counting as one; fs maps every name of one directory to what
\* it names. On windows names that differ in case name the same entry.

FileNames == {<<"a">>, <<"A">>, <<"b">>}
TmpSuffix == <<".tmp">>
DiskNames == FileNames \cup {n \o TmpSuffix : n \in FileNames}
PathArgs == FileNames \cup {<<"a", "/">>}
FileContents == {<<"a">>, <<"a", "b">>}

Directory == [exists |-> TRUE, data |-> <<>>, dir |-> TRUE]
IsDir(entry) == "dir" \in DOMAIN entry
RegularFile(d) == [exists |-> TRUE, data |-> d]

HasSuffix(s, c) == Len(s) > 0 /\ s[Len(s)] = c
TrimSuffix(s, c) == IF HasSuffix(s, c) THEN SubSeq(s, 1, Len(s) - 1) ELSE s
ToLower(s) == [i \in DOMAIN s |-> IF s[i] = "A" THEN "a" ELSE s[i]]

GetBareDirectoryPath(directoryPath) ==
    IF HasSuffix(directoryPath, "/") \/ HasSuffix(directoryPath, "\\")
    THEN TrimSuffix(TrimSuffix(directoryPath, "/"), "\\")
    ELSE directoryPath

\* the name under which the entry that path names is stored
Resolve(disk, path) ==
    IF goos = "windows"
    THEN LET stored == {n \in DOMAIN disk : disk[n].exists /\ ToLower(n) = ToLower(path)}
         IN  IF stored = {} THEN path ELSE CHOOSE n \in stored : TRUE
    ELSE path
Lookup(disk, path) == disk[Resolve(disk, path)]

\* The outcomes of a call on the OS: the error and the directory afterwards.
\* A call can always fail for a reason outside the model (EIO stands for
\* permissions, a directory that is not empty, a device error) and then
\* changes nothing.
Failure(disk) == [err |-> "EIO", disk |-> disk]
Done(disk) == [err |-> "nil", disk |-> disk]

OsRemove(disk, name) ==
    {Failure(disk)} \cup
    IF Lookup(disk, name).exists
    THEN {Done([disk EXCEPT ![Resolve(disk, name)] = NoFile])}
    ELSE {[err |-> "ENOENT", disk |-> disk]}

OsRenameKeepingSource(disk, oldpath, newpath) ==
    {Failure(disk)} \cup
    IF Lookup(disk, oldpath).exists
    THEN {Done([disk EXCEPT ![newpath] = Lookup(disk, oldpath)])}
    ELSE {[err |-> "ENOENT", disk |-> disk]}

\* os.Rename: the entry of oldpath is stored under newpath, replacing a file
\* (or, for a directory, an empty directory) stored there
OsRename(disk, oldpath, newpath) ==
    LET old == Resolve(disk, oldpath)
        new == Resolve(disk, newpath)
    IN  {Failure(disk)} \cup
        IF ~disk[old].exists THEN {[err |-> "ENOENT", disk |-> disk]}
        ELSE IF old # new /\ disk[new].exists /\ IsDir(disk[old]) # IsDir(disk[new])
        THEN {}
        ELSE {Done([n \in DOMAIN disk |->
                       IF n = newpath THEN disk[old]
                       ELSE IF n \in {old, new} THEN NoFile
                       ELSE disk[n]])}

\* isDiskEntryExists: false only when os.Stat answers that nothing is there
IsFileExists(disk, path) == {Lookup(disk, path).exists, TRUE}

NeverSameName(bareSourceFileName, bareTargetFileName) == FALSE

SameName(bareSourceFileName, bareTargetFileName) ==
    bareSourceFileName = bareTargetFileName

\* names that differ in case only, on the platform where that names one file
CaseOnly(bareSourceFileName, bareTargetFileName) ==
    goos = "windows" /\ ToLower(bareSourceFileName) = ToLower(bareTargetFileName)

\* the state of the handle, which a free function on paths leaves alone
handle == <<fd, pc, buffer, orig, lines, linesOnly, early, disturbed>>

\* a free function returns err; stepFailed tells whether a call it made on
\* the OS failed
Finish(op, arg, err, stepFailed, res) ==
    /\ Outcome(op, arg, err, res)
    /\ osFailed' = stepFailed
    /\ held' = 0
    /\ UNCHANGED goos
    /\ UNCHANGED handle

\* the renaming through a temporary name
RenameThroughTmp(op, arg, bareSourceFileName, bareTargetFileName, disk, stepFailed) ==
    \E first \in OsRename(disk, bareSourceFileName, bareTargetFileName \o TmpSuffix) :
        IF first.err # "nil"
        THEN fs' = first.disk /\ Finish(op, arg, first.err, TRUE, <<>>)
        ELSE \E second \in OsRename(first.disk, bareTargetFileName \o TmpSuffix,
                                     bareTargetFileName) :
                /\ fs' = second.disk
                /\ Finish(op, arg, second.err, stepFailed \/ second.err # "nil", <<>>)

\* the removal of an existing target, whose error is dropped: the outcomes
\* of IsFileExists followed by DeleteFile
DeleteTarget(disk, bareTargetFileName) ==
    UNION {IF found THEN OsRemove(disk, bareTargetFileName) ELSE {Done(disk)} :
           found \in IsFileExists(disk, bareTargetFileName)}

\* RenameFile as it was before the check of the case moved in front of the
\* removal of the target
RenameFileEarlier(op, sourceFileName, targetFileName) ==
    LET bareSourceFileName == GetBareDirectoryPath(sourceFileName)
        bareTargetFileName == GetBareDirectoryPath(targetFileName)
        arg == <<sourceFileName, targetFileName>>
    IN  /\ Ready
        /\ IF SameName(bareSourceFileName, bareTargetFileName)
           THEN fs' = fs /\ Finish(op, arg, "nil", FALSE, <<>>)
           ELSE \E deleted \in DeleteTarget(fs, bareTargetFileName) :
                IF CaseOnly(bareSourceFileName, bareTargetFileName)
                THEN RenameThroughTmp(op, arg, bareSourceFileName, bareTargetFileName,
                                      deleted.disk, deleted.err # "nil")
                ELSE \E renamed \in OsRename(deleted.disk, bareSourceFileName,
                                              bareTargetFileName) :
                        /\ fs' = renamed.disk
                        /\ Finish(op, arg, renamed.err,
                                  deleted.err # "nil" \/ renamed.err # "nil", <<>>)

RenameFileFrom(op, sourceFileName, targetFileName) ==
    LET bareSourceFileName == GetBareDirectoryPath(sourceFileName)
        bareTargetFileName == GetBareDirectoryPath(targetFileName)
        arg == <<sourceFileName, targetFileName>>
    IN  /\ Ready
        /\ IF SameName(bareSourceFileName, bareTargetFileName)
           THEN fs' = fs /\ Finish(op, arg, "nil", FALSE, <<>>)
           ELSE IF CaseOnly(bareSourceFileName, bareTargetFileName)
           THEN RenameThroughTmp(op, arg, bareSourceFileName, bareTargetFileName,
                                 fs, FALSE)
           ELSE \E deleted \in DeleteTarget(fs, bareTargetFileName) :
                \E renamed \in OsRename(deleted.disk, bareSourceFileName,
                                         bareTargetFileName) :
                    /\ fs' = renamed.disk
                    /\ Finish(op, arg, renamed.err,
                              deleted.err # "nil" \/ renamed.err # "nil", <<>>)

RenameFile(sourceFileName, targetFileName) ==
    RenameFileFrom("RenameFile", sourceFileName, targetFileName)

MoveFile(sourceFile, destinationFile) ==
    RenameFileFrom("MoveFile", sourceFile, destinationFile)

DeleteFile(fileName) ==
    /\ Ready
    /\ \E removed \in OsRemove(fs, fileName) :
          /\ fs' = removed.disk
          /\ Finish("DeleteFile", <<fileName>>, removed.err, removed.err # "nil", <<>>)

AlwaysRegular(entry) == TRUE

\* sourceFileStat.Mode().IsRegular()
IsRegular(entry) == ~IsDir(entry)

\* os.Create: the file is created, or truncated when it exists
OsCreate(disk, name) ==
    {Failure(disk)} \cup
    IF Lookup(disk, name).exists /\ IsDir(Lookup(disk, name))
    THEN {}
    ELSE {Done([disk EXCEPT ![Resolve(disk, name)] = RegularFile(<<>>)])}

IoCopyShort(data) ==
    {[err |-> "nil", written |-> w] : w \in ProperPrefixes(data) \cup {<<>>}}

\* io.Copy of data into a file just created: all of it, or an error after a
\* part of it
IoCopy(data) ==
    {[err |-> "nil", written |-> data]} \cup
    {[err |-> "EIO", written |-> w] : w \in ProperPrefixes(data) \cup {<<>>}}

CopyFile(sourceFile, destinationFile) ==
    LET arg == <<sourceFile, destinationFile>>
        Op == "CopyFile"
    IN  /\ Ready
        /\ \/ fs' = fs /\ Finish(Op, arg, "EIO", TRUE, <<>>)   \* os.Stat or os.Open failed
           \/ /\ ~Lookup(fs, sourceFile).exists
              /\ fs' = fs /\ Finish(Op, arg, "ENOENT", TRUE, <<>>)
           \/ /\ Lookup(fs, sourceFile).exists
              /\ ~IsRegular(Lookup(fs, sourceFile))
              /\ fs' = fs /\ Finish(Op, arg, "not a regular file", FALSE, <<>>)
           \/ /\ Lookup(fs, sourceFile).exists
              /\ IsRegular(Lookup(fs, sourceFile))
              /\ \E created \in OsCreate(fs, destinationFile) :
                    IF created.err # "nil"
                    THEN fs' = created.disk /\ Finish(Op, arg, created.err, TRUE, <<>>)
                    ELSE \E copied \in (IF IsDir(Lookup(created.disk, sourceFile))
                                        THEN {[err |-> "EIO", written |-> <<>>]}
                                        ELSE IoCopy(Lookup(created.disk, sourceFile).data)) :
                            /\ fs' = [created.disk EXCEPT
                                         ![Resolve(created.disk, destinationFile)] =
                                             RegularFile(copied.written)]
                            /\ Finish(Op, arg, copied.err, copied.err # "nil", <<>>)

Urls == {"malformed", "unreachable", "reachable"}
\* http.NewRequest parses the URL
WellFormed(url) == url # "malformed"
\* client.Do can succeed
Reachable(url) == url = "reachable"
\* what the server can answer
Bodies == FileContents
\* where the model moves to
MoveTargets == {<<"b">>}
\* where the model downloads to
DownloadNames == {<<"a">>, <<"b">>}

DownloadFileCreatingFirst(url, filepath) ==
    /\ Ready
    /\ \E created \in OsCreate(fs, filepath) :
          /\ fs' = created.disk
          /\ Finish("DownloadFile", <<url, filepath>>, "EIO", TRUE, <<>>)

\* DownloadFile(url, filepath, header); the header changes what is asked of
\* the server, the response body is any of Bodies
DownloadFile(url, filepath) ==
    LET arg == <<url, filepath>>
        Op == "DownloadFile"
    IN  /\ Ready
        /\ \/ /\ ~WellFormed(url)
              /\ fs' = fs /\ Finish(Op, arg, "parse error", FALSE, <<>>)
           \/ /\ WellFormed(url)                     \* client.Do failed
              /\ fs' = fs /\ Finish(Op, arg, "EIO", TRUE, <<>>)
           \/ /\ WellFormed(url) /\ Reachable(url)
              /\ \E body \in Bodies :
                 \E created \in OsCreate(fs, filepath) :
                    IF created.err # "nil"
                    THEN fs' = created.disk /\ Finish(Op, arg, created.err, TRUE, body)
                    ELSE \E copied \in IoCopy(body) :
                            /\ fs' = [created.disk EXCEPT
                                         ![Resolve(created.disk, filepath)] =
                                             RegularFile(copied.written)]
                            /\ Finish(Op, arg, copied.err, copied.err # "nil", body)

\* The directories the free functions start on: sample files, one directory
\* or one file left under a temporary name at most.
Disks ==
    {disk \in [DiskNames -> {NoFile, Directory} \cup
                              {RegularFile(d) : d \in FileContents}] :
        /\ \A n \in DiskNames \ FileNames :
              disk[n] \in {NoFile, RegularFile(<<"a">>)}
        /\ Cardinality({n \in DiskNames : disk[n] # NoFile /\
                            (IsDir(disk[n]) \/ n \notin FileNames)}) <= 1}

\* no call made yet, no handle opened
Idle ==
    /\ fd = NilFd
    /\ pc = "idle"
    /\ buffer = <<>>
    /\ lastOp = "none"
    /\ lastArg = <<>>
    /\ lastErr = "nil"
    /\ lastRes = <<>>
    /\ orig = <<>>
    /\ lines = [p \in Paths |-> <<>>]
    /\ linesOnly = [p \in Paths |-> FALSE]
    /\ early = <<>>
    /\ disturbed = 0
    /\ osFailed = FALSE
    /\ held = 0

InitFiles ==
    /\ goos \in {"linux", "windows"}
    /\ fs \in {disk \in Disks :
                  goos = "windows" =>
                      \A n, m \in DiskNames :
                          (n # m /\ ToLower(n) = ToLower(m)) =>
                              ~(disk[n].exists /\ disk[m].exists)}
    /\ Idle

NextFiles ==
    \/ \E sourceFileName, targetFileName \in PathArgs :
          RenameFile(sourceFileName, targetFileName)
    \/ \E sourceFile \in FileNames, destinationFile \in MoveTargets :
          MoveFile(sourceFile, destinationFile)
    \/ \E fileName \in FileNames : DeleteFile(fileName)
    \/ \E sourceFile, destinationFile \in FileNames : CopyFile(sourceFile, destinationFile)
    \/ \E url \in Urls, filepath \in DownloadNames : DownloadFile(url, filepath)

SpecFiles == InitFiles /\ [][NextFiles]_vars

---------------------------------------------------------------------------
\* The functions that match names or content against regular expressions.
\* The directory fs describes is Listed; Missing names nothing.

Listed == <<"d">>
Missing == <<"x">>
ListedPaths == {Listed, Listed \o <<"/">>, Missing}

\* The patterns of the model: "a" matches a text with the letter a, "."
\* a text with any character but a newline, "(" is not a regular expression.
Patterns == {"a", ".", "("}
Compiles(regexMatcher) == regexMatcher # "("
Matches(regexMatcher, text) ==
    IF regexMatcher = "a"
    THEN \E i \in 1..Len(text) : text[i] = "a"
    ELSE \E i \in 1..Len(text) : text[i] # NL
\* the lists of matchers of the model: one pattern, or two with "(" among them
MatcherLists == {<<p>> : p \in Patterns} \cup {<<"a", "(">>, <<"(", "a">>, <<"a", ".">>}

\* ioutil.ReadDir answers the entries sorted by name
SortedNames == << <<"A">>, <<"A", ".tmp">>, <<"a">>, <<"a", ".tmp">>,
                 <<"b">>, <<"b", ".tmp">> >>
ReadDir(disk) == SelectSeq(SortedNames, LAMBDA n : disk[n].exists)

\* The inner loop without its break: every matcher that matches appends
RECURSIVE MatchEntryWithoutBreak(_, _, _, _, _, _)
MatchEntryWithoutBreak(name, entry, regexMatchers, k, isFilesIncluded, isDirectoriesIncluded) ==
    IF k > Len(regexMatchers) THEN [panic |-> FALSE, list |-> <<>>]
    ELSE IF ~Compiles(regexMatchers[k]) THEN [panic |-> TRUE, list |-> <<>>]
    ELSE LET rest == MatchEntryWithoutBreak(name, entry, regexMatchers, k + 1,
                                            isFilesIncluded, isDirectoriesIncluded)
             here == IF Matches(regexMatchers[k], name) /\ IsDir(entry) /\ isDirectoriesIncluded
                     THEN <<name \o <<"/">>>>
                     ELSE IF Matches(regexMatchers[k], name) /\ ~IsDir(entry) /\ isFilesIncluded
                     THEN <<name>>
                     ELSE <<>>
         IN  [panic |-> rest.panic, list |-> here \o rest.list]

\* The inner loop of GetListOfDirectoryContents for one entry, from the k-th
\* matcher on: what is appended to the list, or a panic of regexp.MustCompile
RECURSIVE MatchEntry(_, _, _, _, _, _)
MatchEntry(name, entry, regexMatchers, k, isFilesIncluded, isDirectoriesIncluded) ==
    IF k > Len(regexMatchers) THEN [panic |-> FALSE, list |-> <<>>]
    ELSE IF ~Compiles(regexMatchers[k]) THEN [panic |-> TRUE, list |-> <<>>]
    ELSE IF Matches(regexMatchers[k], name) /\ IsDir(entry) /\ isDirectoriesIncluded
    THEN [panic |-> FALSE, list |-> <<name \o <<"/">>>>]
    ELSE IF Matches(regexMatchers[k], name) /\ ~IsDir(entry) /\ isFilesIncluded
    THEN [panic |-> FALSE, list |-> <<name>>]
    ELSE MatchEntry(name, entry, regexMatchers, k + 1, isFilesIncluded,
                    isDirectoriesIncluded)

\* The outer loop, from the i-th entry of files on
RECURSIVE MatchEntries(_, _, _, _, _, _)
MatchEntries(disk, files, i, regexMatchers, isFilesIncluded, isDirectoriesIncluded) ==
    IF i > Len(files) THEN [panic |-> FALSE, list |-> <<>>]
    ELSE LET first == MatchEntry(files[i], disk[files[i]], regexMatchers, 1,
                                 isFilesIncluded, isDirectoriesIncluded)
             others == MatchEntries(disk, files, i + 1, regexMatchers,
                                    isFilesIncluded, isDirectoriesIncluded)
         IN  IF first.panic THEN first
             ELSE [panic |-> others.panic, list |-> first.list \o others.list]

\* GetListOfDirectoryContents called as op
ListDirectoryContents(op, arg, directoryPath, regexMatchers, isFilesIncluded, isDirectoriesIncluded) ==
    /\ Ready
    /\ fs' = fs
    /\ \/ Finish(op, arg, "EIO", TRUE, <<>>)                    \* ioutil.ReadDir failed
       \/ /\ GetBareDirectoryPath(directoryPath) # Listed
          /\ Finish(op, arg, "ENOENT", TRUE, <<>>)
       \/ /\ GetBareDirectoryPath(directoryPath) = Listed
          /\ LET found == MatchEntries(fs, ReadDir(fs), 1, regexMatchers,
                                       isFilesIncluded, isDirectoriesIncluded)
             IN  IF found.panic
                 THEN Finish(op, arg, "panic", FALSE, <<>>)
                 ELSE Finish(op, arg, "nil", FALSE, found.list)

GetListOfDirectoryContents(directoryPath, regexMatchers, isFilesIncluded, isDirectoriesIncluded) ==
    ListDirectoryContents("GetListOfDirectoryContents",
                          <<directoryPath, regexMatchers, isFilesIncluded,
                            isDirectoriesIncluded>>,
                          directoryPath, regexMatchers, isFilesIncluded,
                          isDirectoriesIncluded)

GetListOfFiles(directoryPath, regexMatcher) ==
    ListDirectoryContents("GetListOfFiles", <<directoryPath, <<regexMatcher>>>>,
                          directoryPath, <<regexMatcher>>, TRUE, FALSE)

GetListOfDirectories(directoryPath, regexMatcher) ==
    ListDirectoryContents("GetListOfDirectories", <<directoryPath, <<regexMatcher>>>>,
                          directoryPath, <<regexMatcher>>, FALSE, TRUE)

IsFileContainsText(filename, regexMatcher) ==
    LET arg == <<filename, <<regexMatcher>>>>
        Op == "IsFileContainsText"
    IN  /\ Ready
        /\ fs' = fs
        /\ \/ Finish(Op, arg, "EIO", TRUE, <<FALSE>>)            \* ioutil.ReadFile failed
           \/ /\ ~Lookup(fs, filename).exists
              /\ Finish(Op, arg, "ENOENT", TRUE, <<FALSE>>)
           \/ /\ Lookup(fs, filename).exists
              /\ IsRegular(Lookup(fs, filename))
              /\ IF ~Compiles(regexMatcher)
                 THEN Finish(Op, arg, "panic", FALSE, <<>>)
                 ELSE Finish(Op, arg, "nil", FALSE,
                             <<Matches(regexMatcher, Lookup(fs, filename).data)>>)

NextMatch ==
    \/ \E directoryPath \in ListedPaths, regexMatchers \in MatcherLists,
          isFilesIncluded, isDirectoriesIncluded \in BOOLEAN :
          GetListOfDirectoryContents(directoryPath, regexMatchers, isFilesIncluded,
                                     isDirectoriesIncluded)
    \/ \E directoryPath \in ListedPaths, regexMatcher \in Patterns :
          GetListOfFiles(directoryPath, regexMatcher)
    \/ \E directoryPath \in ListedPaths, regexMatcher \in Patterns :
          GetListOfDirectories(directoryPath, regexMatcher)
    \/ \E filename \in FileNames, regexMatcher \in Patterns :
          IsFileContainsText(filename, regexMatcher)

\* matching does not depend on the platform, nor on leftovers of a rename
InitMatch ==
    /\ goos = "linux"
    /\ fs \in {disk \in Disks : \A n \in DiskNames \ FileNames : disk[n] = NoFile}
    /\ Idle

SpecMatch == InitMatch /\ [][NextMatch]_vars

---------------------------------------------------------------------------
\* The functions on path strings. A path is a sequence of characters: a
\* letter, the dot and the two characters Go's path functions may take for
\* separators.
MaxPath == 4
PathChars == {"a", ".", "/", "\\"}

RECURSIVE PathsUpTo(_)
PathsUpTo(n) ==
    IF n = 0 THEN {<<>>}
    ELSE LET shorter == PathsUpTo(n - 1)
         IN  shorter \cup {Append(s, c) : s \in {t \in shorter : Len(t) = n - 1}, c \in PathChars}

PathStrings == PathsUpTo(MaxPath)

\* os.IsPathSeparator: the slash, and on windows the backslash as well
IsPathSeparator(c) == c = "/" \/ (goos = "windows" /\ c = "\\")
\* string(filepath.Separator)
Separator == IF goos = "windows" THEN <<"\\">> ELSE <<"/">>

GetNormalizedDirectoryPathAppending(directoryPath) == directoryPath \o <<"/">>

GetNormalizedDirectoryPath(directoryPath) ==
    IF ~HasSuffix(directoryPath, "/") /\ ~HasSuffix(directoryPath, "\\")
    THEN directoryPath \o <<"/">>
    ELSE directoryPath

\* strings.TrimSuffix(s, suffix) for a suffix of any length
TrimSuffixString(s, suffix) ==
    IF Len(suffix) <= Len(s) /\ SubSeq(s, Len(s) - Len(suffix) + 1, Len(s)) = suffix
    THEN SubSeq(s, 1, Len(s) - Len(suffix))
    ELSE s

\* the first loop of filepath.Base: the trailing separators are stripped
RECURSIVE StripTrailingSeparators(_)
StripTrailingSeparators(path) ==
    IF Len(path) > 0 /\ IsPathSeparator(path[Len(path)])
    THEN StripTrailingSeparators(SubSeq(path, 1, Len(path) - 1))
    ELSE path

\* the second loop of filepath.Base: what follows the last separator
RECURSIVE LastElement(_)
LastElement(path) ==
    IF Len(path) = 0 \/ IsPathSeparator(path[Len(path)]) THEN <<>>
    ELSE Append(LastElement(SubSeq(path, 1, Len(path) - 1)), path[Len(path)])

\* filepath.Base
Base(path) ==
    IF path = <<>> THEN <<".">>
    ELSE LET element == LastElement(StripTrailingSeparators(path))
         IN  IF element = <<>> THEN Separator ELSE element

\* filepath.Ext that ignores the dots: no suffix is an extension
ExtNone(path) == <<>>

\* filepath.Ext: the suffix from the last dot of the last element, scanned
\* from the end of the path
RECURSIVE Ext(_)
Ext(path) ==
    IF Len(path) = 0 \/ IsPathSeparator(path[Len(path)]) THEN <<>>
    ELSE IF path[Len(path)] = "." THEN <<".">>
    ELSE LET before == Ext(SubSeq(path, 1, Len(path) - 1))
         IN  IF before = <<>> THEN <<>> ELSE Append(before, path[Len(path)])

GetFileExtension(fileName) == Ext(fileName)
GetFileNameFromPath(fullyQualifiedFileName) == Base(fullyQualifiedFileName)

GetBaseFileName(fileName) ==
    LET bareFileName == GetBareDirectoryPath(fileName)
        normalizedFileName == GetFileNameFromPath(bareFileName)
    IN  TrimSuffixString(normalizedFileName, Ext(normalizedFileName))

\* The working directories os.Getwd may answer: rooted, clean paths
DirNames == {"a", "b"}
WorkingDirectories ==
    {<<"/">>} \cup {<<"/", x>> : x \in DirNames}
              \cup {<<"/", x, "/", y>> : x \in DirNames, y \in DirNames}

\* filepath.Clean of what filepath.Dir hands it for a rooted, clean path: the
\* path up to and with its last separator, which loses that separator unless
\* it is the root
Clean(path) ==
    IF path = <<>> THEN <<".">>
    ELSE IF Len(path) > 1 /\ IsPathSeparator(path[Len(path)])
    THEN SubSeq(path, 1, Len(path) - 1)
    ELSE path

\* filepath.Dir: all but the last element of the path
Dir(path) ==
    LET i == IF \E k \in 1..Len(path) : IsPathSeparator(path[k])
             THEN CHOOSE k \in 1..Len(path) :
                      /\ IsPathSeparator(path[k])
                      /\ \A j \in (k + 1)..Len(path) : ~IsPathSeparator(path[j])
             ELSE 0
    IN  Clean(SubSeq(path, 1, i))

\* GetNormalizedDirectoryPath applied to the path drawn at the start
NormalizeDirectoryPath ==
    /\ Ready
    /\ fs' = fs
    /\ Finish("GetNormalizedDirectoryPath", <<lastArg[1]>>, "nil", FALSE,
              GetNormalizedDirectoryPath(lastArg[1]))

\* GetBaseFileName applied to the path drawn at the start
BaseFileName ==
    /\ Ready
    /\ fs' = fs
    /\ Finish("GetBaseFileName", <<lastArg[1]>>, "nil", FALSE, GetBaseFileName(lastArg[1]))

\* GetFileExtension applied to the path drawn at the start
FileExtension ==
    /\ Ready
    /\ fs' = fs
    /\ Finish("GetFileExtension", <<lastArg[1]>>, "nil", FALSE, GetFileExtension(lastArg[1]))

\* GetWorkingDirectory while the process is in workingDirectory; the path
\* drawn at the start stays the first argument on record, the directory the
\* OS reports is the second
GetWorkingDirectory(workingDirectory) ==
    /\ Ready
    /\ fs' = fs
    /\ \/ Finish("GetWorkingDirectory", <<lastArg[1], workingDirectory>>, "EIO", TRUE, <<>>)
       \/ Finish("GetWorkingDirectory", <<lastArg[1], workingDirectory>>, "nil", FALSE,
                 Dir(workingDirectory))

NextPaths ==
    \/ NormalizeDirectoryPath
    \/ BaseFileName
    \/ FileExtension
    \/ \E workingDirectory \in WorkingDirectories : GetWorkingDirectory(workingDirectory)

InitPaths ==
    /\ goos \in {"linux", "windows"}
    /\ fs = [n \in DiskNames |-> NoFile]
    /\ fd = NilFd
    /\ pc = "idle"
    /\ buffer = <<>>
    /\ lastOp = "none"
    /\ lastArg \in {<<path>> : path \in PathStrings}
    /\ lastErr = "nil"
    /\ lastRes = <<>>
    /\ orig = <<>>
    /\ lines = [p \in Paths |-> <<>>]
    /\ linesOnly = [p \in Paths |-> FALSE]
    /\ early = <<>>
    /\ disturbed = 0
    /\ osFailed = FALSE
    /\ held = 0

SpecPaths == InitPaths /\ [][NextPaths]_vars

---------------------------------------------------------------------------
\* Vocabulary of the properties

HandleOps == {"Close", "WriteBytes", "WriteLine", "WriteString",
              "GetFileContents", "GetFirstLine", "RemoveFirstLine"}
WriteOps == {"WriteBytes", "WriteString", "WriteLine"}

HasNL(b) == \E i \in 1..Len(b) : b[i] = NL
CountNL(b) == Cardinality({i \in 1..Len(b) : b[i] = NL})
\* b[i] is the first newline of b
FirstNLAt(b, i) == i \in 1..Len(b) /\ b[i] = NL /\ \A j \in 1..(i - 1) : b[j] # NL
IsPrefix(p, b) == Len(p) <= Len(b) /\ \A i \in 1..Len(p) : p[i] = b[i]

\* the lines, each followed by a newline, without the last newline
RECURSIVE JoinLines(_)
JoinLines(ls) ==
    IF ls = <<>> THEN <<>>
    ELSE IF Len(ls) = 1 THEN ls[1]
    ELSE ls[1] \o <<NL>> \o JoinLines(Tail(ls))

\* a call of RemoveFirstLine that reached the file is running or has just returned
InRemoveFirstLine ==
    lastOp = "RemoveFirstLine" /\ lastErr \in {"pending", "nil", "EIO"}

\* b without its first line: the bytes after the first newline, nothing
\* when b holds no newline
WithoutFirstLine(b) ==
    IF HasNL(b)
    THEN LET i == CHOOSE k \in 1..Len(b) : FirstNLAt(b, k) IN SubSeq(b, i + 1, Len(b))
    ELSE <<>>

---------------------------------------------------------------------------
\* C1: after WriteLine alone has written lines (byte strings without a
\* newline, the empty one included) to a file that Open created,
\* GetFileContents on the handle returns those lines joined by newlines:
\* every line followed by a newline, less the single final newline.
C1_WrittenLinesReadBack ==
    (/\ lastOp = "GetFileContents" /\ lastErr = "nil" /\ linesOnly[fd.path]
     /\ \A k \in 1..Len(lines[fd.path]) : ~HasNL(lines[fd.path][k]))
        => lastRes = JoinLines(lines[fd.path])

\* C2: when RemoveFirstLine returns without error on a file that held at
\* least two lines (L1 NL L2 NL rest), the file holds exactly the bytes that
\* followed the first newline, and a GetFirstLine that follows and does not
\* meet an I/O error returns L2.
C2_RemoveFirstLineKeepsRest ==
    [][ /\ (lastOp' = "RemoveFirstLine" /\ lastErr' = "nil" /\ CountNL(orig) >= 2)
            => \A i \in 1..Len(orig) : FirstNLAt(orig, i)
                   => fs'[fd.path].data = SubSeq(orig, i + 1, Len(orig))
        /\ (/\ lastOp = "RemoveFirstLine" /\ lastErr = "nil" /\ CountNL(orig) >= 2
            /\ lastOp' = "GetFirstLine" /\ lastErr' # "EIO")
            => /\ lastErr' = "nil"
               /\ \A i, j \in 1..Len(orig) :
                     (FirstNLAt(orig, i) /\ i < j /\ FirstNLAt(SubSeq(orig, i + 1, Len(orig)), j - i))
                         => lastRes' = SubSeq(orig, i + 1, j - 1)
      ]_vars

C2_Witness ==
    /\ lastOp = "RemoveFirstLine" /\ lastErr = "nil" /\ pc = "idle"
    /\ orig = <<"a", NL, "b", NL>>
    /\ Content = <<"b", NL>>

\* C3 as stated: whenever RemoveFirstLine is running or has returned, the
\* file holds the original content or the original content without its
\* first line.
C3_RemoveFirstLineAtomic ==
    InRemoveFirstLine => Content \in {orig, WithoutFirstLine(orig)}

\* C3 amended: whenever RemoveFirstLine is running or has returned, the
\* file holds the original content (always so up to the truncation) or a
\* prefix of the original content without its first line; when the call
\* returns without error it holds exactly the original content without its
\* first line.
C3_RemoveFirstLineTruncateRewrite ==
    InRemoveFirstLine =>
        /\ Content = orig \/ IsPrefix(Content, WithoutFirstLine(orig))
        /\ pc \in {"seek1", "read", "truncate"} => Content = orig
        /\ (pc = "idle" /\ lastErr = "nil") => Content = WithoutFirstLine(orig)

C3_Witness ==
    /\ lastOp = "RemoveFirstLine" /\ lastErr = "EIO" /\ pc = "idle"
    /\ orig = <<"a", NL, "b", "a">>
    /\ Content = <<"b">>

\* C4: every handle operation called on a handle that was never opened
\* panics.
C4_NeverOpenedPanics ==
    (fd.state = "nil" /\ lastOp \in HandleOps) => lastErr = "panic"

\* C5: every handle operation called after Close, before the handle is
\* opened again, panics.
C5_ClosedPanics ==
    [][(fd.state = "closed" /\ lastOp' \in HandleOps) => lastErr' = "panic"]_vars

\* C6: GetFileContents on the handle returns the content without its last
\* byte when the content ends in a newline (so k trailing newlines leave
\* k - 1), and the content unchanged otherwise.
C6_TrimsOneNewline ==
    (lastOp = "GetFileContents" /\ lastErr = "nil")
        => lastRes = IF Len(Content) > 0 /\ Content[Len(Content)] = NL
                     THEN SubSeq(Content, 1, Len(Content) - 1)
                     ELSE Content

\* C7: a write through an open handle that returns without error turns the
\* content c into c followed by the bytes given (followed by one more
\* newline for WriteLine), wherever the read position is; a write that
\* fails leaves c as a prefix of the content.
C7_WritesAppend ==
    [][(fd.state = "open" /\ lastOp' \in WriteOps /\ lastErr' \in {"nil", "EIO"})
          => /\ IsPrefix(Content, fs'[fd.path].data)
             /\ (lastErr' = "nil" /\ lastOp' \in {"WriteBytes", "WriteString"})
                   => fs'[fd.path].data = Content \o lastArg'
             /\ (lastErr' = "nil" /\ lastOp' = "WriteLine")
                   => fs'[fd.path].data = Content \o lastArg' \o <<NL>>
      ]_vars

\* a WriteBytes through an open handle has put its byte behind the content
\* the file already held
C7_Witness ==
    /\ lastOp = "WriteBytes" /\ lastErr = "nil" /\ lastArg = <<"b">>
    /\ fd.state = "open" /\ Content = <<"a", NL, "b">>

\* C8: on a file that holds a newline, a GetFirstLine that meets no I/O
\* error returns the bytes before the first newline, changes no file and
\* leaves the handle open at position 0; called again at once it returns
\* the same bytes.
C8_FirstLineOfTerminatedFile ==
    [][ /\ (fd.state = "open" /\ HasNL(Content) /\ lastOp' = "GetFirstLine" /\ lastErr' # "EIO")
            => /\ lastErr' = "nil"
               /\ \A i \in 1..Len(Content) :
                     FirstNLAt(Content, i) => lastRes' = SubSeq(Content, 1, i - 1)
               /\ fs' = fs
               /\ fd' = [fd EXCEPT !.pos = 0]
        /\ (/\ lastOp = "GetFirstLine" /\ lastErr = "nil" /\ HasNL(Content)
            /\ lastOp' = "GetFirstLine" /\ lastErr' # "EIO")
            => lastErr' = "nil" /\ lastRes' = lastRes
      ]_vars

C8_Witness ==
    /\ lastOp = "GetFirstLine" /\ lastErr = "nil"
    /\ Content = <<"a", "b", NL, "a">>
    /\ lastRes = <<"a", "b">>

\* C9: once lines were written with WriteLine to a file that Open created
\* and the handle is closed, GetFileContents(fileName) returns the bytes of
\* the file as they are, the last line's newline included.
C9_FileReadBackExactly ==
    (/\ lastOp = "GetFileContentsByName" /\ lastErr = "nil"
     /\ fd.state = "closed" /\ lastArg = <<fd.path>>
     /\ linesOnly[fd.path] /\ lines[fd.path] # <<>>)
        => lastRes = Content

\* C10: an Open that succeeds creates an empty file where there was none
\* and leaves an existing file, like every other file, as it was; an Open
\* that fails and a Close change no file.
C10_OpenKeepsContent ==
    [][ /\ (lastOp' = "Open" /\ lastErr' = "nil")
            => \A p \in Paths :
                  fs'[p] = IF p = lastArg'[1] /\ ~fs[p].exists
                           THEN [exists |-> TRUE, data |-> <<>>]
                           ELSE fs[p]
        /\ (lastOp' = "Open" /\ lastErr' # "nil") => fs' = fs
        /\ (lastOp' = "Close") => fs' = fs
      ]_vars

\* a handle re-opened on the file it had created and written lines to
C10_Witness ==
    /\ lastOp = "Open" /\ lastErr = "nil" /\ fd.state = "open" /\ fd.pos = 0
    /\ linesOnly[fd.path] /\ lines[fd.path] = << <<"a">>, <<"b">> >>
    /\ Content = <<"a", NL, "b", NL>>

---------------------------------------------------------------------------
\* C11: when RemoveFirstLine returns nil and another writer appended only
\* between its read and its truncation, the file holds what followed the first
\* newline of the content the call started with: the bytes of the other writer
\* are absent, where appending them before the call would have kept them; and
\* when no other writer appended, no byte after the first newline is lost.
C11_AppendedBytesLost ==
    (lastOp = "RemoveFirstLine" /\ pc = "idle" /\ lastErr = "nil" /\ disturbed = 0) =>
        /\ Content = WithoutFirstLine(orig)
        /\ HasNL(orig) => WithoutFirstLine(orig \o early) = Content \o early

\* a call that returned nil after another writer appended to a file with a
\* newline between the read and the truncation
C11_Witness ==
    /\ lastOp = "RemoveFirstLine" /\ pc = "idle" /\ lastErr = "nil" /\ disturbed = 0
    /\ early # <<>>
    /\ HasNL(orig)
    /\ WithoutFirstLine(orig \o early) # Content

---------------------------------------------------------------------------
\* C12: a call that has returned after one of its calls on the OS failed has
\* returned an error, never nil.
C12_FirstErrorReturned ==
    (pc = "idle" /\ osFailed) => lastErr # "nil"

---------------------------------------------------------------------------
\* C13: when a free function that opens a file of its own has returned, with
\* or without an error, it holds no open handle.
C13_NoHandleHeld ==
    (pc = "idle" /\ lastOp \in {"GetFileContentsByName", "AppendLineToFile"}) => held = 0

---------------------------------------------------------------------------
\* The arguments of the last call of a free function on two paths
LastSource == lastArg[1]
LastTarget == lastArg[2]
LastBareSource == GetBareDirectoryPath(lastArg[1])
LastBareTarget == GetBareDirectoryPath(lastArg[2])

\* C14: a step of RenameFile whose source path equals its target path returns
\* nil and leaves every name of the directory with what it named, whether the
\* path names something or not.
C14_RenameSameIsNoOp ==
    [][(lastOp' = "RenameFile" /\ LastSource' = LastTarget')
          => (lastErr' = "nil" /\ fs' = fs)]_vars

\* RenameFile of an existing file onto itself has returned
C14_Witness ==
    /\ lastOp = "RenameFile"
    /\ LastSource = LastTarget
    /\ lastErr = "nil"
    /\ Lookup(fs, LastBareSource).exists
    /\ Lookup(fs, LastBareSource).data # <<>>

\* C15: a step of RenameFile or MoveFile that returns nil, for a source and a
\* target that name different entries (the bare paths differ, and by more
\* than case where case does not count), leaves nothing under the source path
\* and under the target path exactly what the source path named, whatever the
\* target named before.
C15_RenameMovesSource ==
    [][(/\ lastOp' \in {"RenameFile", "MoveFile"}
        /\ lastErr' = "nil"
        /\ ~SameName(LastBareSource', LastBareTarget')
        /\ ~CaseOnly(LastBareSource', LastBareTarget'))
          => (/\ ~Lookup(fs', LastBareSource').exists
              /\ Lookup(fs', LastBareTarget') = Lookup(fs, LastBareSource')
              /\ Lookup(fs, LastBareSource').exists)]_vars

\* a rename between two names has returned nil and the target holds a file
C15_Witness ==
    /\ lastOp \in {"RenameFile", "MoveFile"}
    /\ lastErr = "nil"
    /\ ~SameName(LastBareSource, LastBareTarget)
    /\ ~CaseOnly(LastBareSource, LastBareTarget)
    /\ ~Lookup(fs, LastBareSource).exists
    /\ Lookup(fs, LastBareTarget).data # <<>>

\* C16: on windows a step of RenameFile on an existing entry, with bare names
\* that differ in case only, deletes nothing: afterwards the entry is stored,
\* as it was, under its old name, under target + ".tmp" or under the target;
\* every name but these (and the one a file target + ".tmp" had before) keeps
\* what it named; and when the step returns nil the entry is stored under the
\* target name.
C16_CaseRenameKeepsFile ==
    [][(/\ lastOp' = "RenameFile"
        /\ ~SameName(LastBareSource', LastBareTarget')
        /\ CaseOnly(LastBareSource', LastBareTarget')
        /\ Lookup(fs, LastBareSource').exists)
          => LET places == {Resolve(fs, LastBareSource'), LastBareTarget',
                            LastBareTarget' \o TmpSuffix,
                            Resolve(fs, LastBareTarget' \o TmpSuffix)}
             IN  /\ \E n \in places : fs'[n] = Lookup(fs, LastBareSource')
                 /\ \A n \in DiskNames \ places : fs'[n] = fs[n]
                 /\ lastErr' = "nil" => fs'[LastBareTarget'] = Lookup(fs, LastBareSource')]_vars

\* on windows a rename that changes the case only has returned nil and the
\* file is stored under the target name
C16_Witness ==
    /\ goos = "windows"
    /\ lastOp = "RenameFile"
    /\ ~SameName(LastBareSource, LastBareTarget)
    /\ CaseOnly(LastBareSource, LastBareTarget)
    /\ lastErr = "nil"
    /\ fs[LastBareTarget].exists
    /\ fs[LastBareTarget].data # <<>>
    /\ ~fs[LastBareSource].exists

\* C17: a step of CopyFile that returns nil, for paths that name different
\* files, leaves the destination with the bytes of the source and the source
\* as it was; and a step of DeleteFile changes nothing but the entry it is
\* given, so deleting the source leaves the destination with those bytes.
C17_CopyIsIdentical ==
    [][/\ (/\ lastOp' = "CopyFile"
           /\ lastErr' = "nil"
           /\ Resolve(fs, LastSource') # Resolve(fs, LastTarget'))
             => (/\ Lookup(fs', LastTarget') = RegularFile(Lookup(fs, LastSource').data)
                 /\ Lookup(fs', LastSource') = Lookup(fs, LastSource')
                 /\ IsRegular(Lookup(fs, LastSource')))
       /\ lastOp' = "DeleteFile"
             => \A n \in DiskNames \ {Resolve(fs, LastSource')} : fs'[n] = fs[n]]_vars

\* a copy between two files has returned nil
C17_Witness ==
    /\ lastOp = "CopyFile"
    /\ lastErr = "nil"
    /\ Resolve(fs, LastSource) # Resolve(fs, LastTarget)
    /\ Lookup(fs, LastSource).data # <<>>
    /\ Lookup(fs, LastTarget) = Lookup(fs, LastSource)

\* C18: a step of CopyFile whose source names nothing, or names a directory,
\* returns an error and leaves every name with what it named: the destination
\* is not created, truncated or written.
C18_CopyRefusesNonFile ==
    [][(/\ lastOp' = "CopyFile"
        /\ \/ ~Lookup(fs, LastSource').exists
           \/ IsDir(Lookup(fs, LastSource')))
          => (lastErr' # "nil" /\ fs' = fs)]_vars

\* CopyFile of a directory onto an existing file has returned its error
C18_Witness ==
    /\ lastOp = "CopyFile"
    /\ lastErr = "not a regular file"
    /\ IsDir(Lookup(fs, LastSource))
    /\ Lookup(fs, LastTarget).exists
    /\ Lookup(fs, LastTarget).data # <<>>

\* C19: a step of DownloadFile for a URL that is malformed or unreachable
\* returns an error and leaves every name with what it named; a step that
\* returns nil leaves the destination a file holding the whole response body.
C19_DownloadAllOrUntouched ==
    [][lastOp' = "DownloadFile"
          => /\ ~(WellFormed(LastSource') /\ Reachable(LastSource'))
                   => (lastErr' # "nil" /\ fs' = fs)
             /\ lastErr' = "nil"
                   => Lookup(fs', LastTarget') = RegularFile(lastRes')]_vars

\* a download has returned nil
C19_Witness ==
    /\ lastOp = "DownloadFile"
    /\ lastErr = "nil"
    /\ lastRes # <<>>
    /\ Lookup(fs, LastTarget) = RegularFile(lastRes)

---------------------------------------------------------------------------
\* C20: when a function that matches against regular expressions has been
\* given one that is malformed, it has returned an error: it has not
\* panicked and has not returned a result with a nil error.
MatchOps == {"GetListOfDirectoryContents", "GetListOfFiles", "GetListOfDirectories",
             "IsFileContainsText"}
C20_MalformedPatternIsError ==
    (lastOp \in MatchOps /\ \E k \in 1..Len(lastArg[2]) : ~Compiles(lastArg[2][k]))
        => lastErr \notin {"nil", "panic"}

\* a listing of an empty directory with a malformed pattern has returned nil
C20_Witness ==
    /\ lastOp = "GetListOfFiles"
    /\ ~Compiles(lastArg[2][1])
    /\ ReadDir(fs) = <<>>
    /\ lastErr = "nil"

---------------------------------------------------------------------------
\* Vocabulary of the properties of paths
IsSlash(c) == c \in {"/", "\\"}
\* how many of the two separator characters end s
TrailingSlashes(s) ==
    Cardinality({k \in 1..Len(s) : \A j \in k..Len(s) : IsSlash(s[j])})
\* path holds a character that is not a separator of the platform
HasElement(path) == \E k \in 1..Len(path) : ~IsPathSeparator(path[k])
\* the final element of path: its last run of characters that are not
\* separators, nothing when there is none
FinalElement(path) ==
    IF ~HasElement(path) THEN <<>>
    ELSE LET last == CHOOSE k \in 1..Len(path) :
                        /\ ~IsPathSeparator(path[k])
                        /\ \A j \in (k + 1)..Len(path) : IsPathSeparator(path[j])
             first == CHOOSE k \in 1..last :
                        /\ \A j \in k..last : ~IsPathSeparator(path[j])
                        /\ k > 1 => IsPathSeparator(path[k - 1])
         IN  SubSeq(path, first, last)
HasDot(name) == \E k \in 1..Len(name) : name[k] = "."
\* name without the suffix that starts at its last dot
WithoutExtension(name) ==
    IF ~HasDot(name) THEN name
    ELSE LET dot == CHOOSE k \in 1..Len(name) :
                       name[k] = "." /\ \A j \in (k + 1)..Len(name) : name[j] # "."
         IN  SubSeq(name, 1, dot - 1)

\* C21: GetNormalizedDirectoryPath applied to its own result returns that
\* result; and for a path that ends in no separator or in one, the result ends
\* in exactly one separator and is otherwise the path: the path itself when it
\* ended in one, the path followed by "/" when it ended in none.
C21_NormalizedOnce ==
    lastOp = "GetNormalizedDirectoryPath" =>
        /\ GetNormalizedDirectoryPath(lastRes) = lastRes
        /\ TrailingSlashes(lastArg[1]) <= 1 =>
              /\ TrailingSlashes(lastRes) = 1
              /\ TrailingSlashes(lastArg[1]) = 1 => lastRes = lastArg[1]
              /\ TrailingSlashes(lastArg[1]) = 0 => lastRes = lastArg[1] \o <<"/">>

\* a path without a trailing separator has been normalized
C21_Witness ==
    /\ lastOp = "GetNormalizedDirectoryPath"
    /\ lastArg[1] = <<"/", "a">>
    /\ lastRes = <<"/", "a", "/">>

C24_ReturnsWorkingDirectory ==
    (lastOp = "GetWorkingDirectory" /\ ~osFailed)
        => (lastErr = "nil" /\ lastRes = lastArg[2])

\* GetWorkingDirectory has returned the parent of the working directory
C24_Witness ==
    /\ lastOp = "GetWorkingDirectory"
    /\ lastErr = "nil"
    /\ lastArg[2] = <<"/", "a", "/", "b">>
    /\ lastRes = <<"/", "a">>

---------------------------------------------------------------------------
\* C23: the children of the directory, in the order of the listing, that the
\* last call of GetListOfDirectoryContents selects: those whose name matches
\* one of the patterns at least and whose kind is included, a directory
\* with "/" behind its name
SelectedChildren ==
    LET Selected(name) ==
            /\ \E k \in 1..Len(lastArg[2]) :
                  Compiles(lastArg[2][k]) /\ Matches(lastArg[2][k], name)
            /\ IF IsDir(fs[name]) THEN lastArg[4] ELSE lastArg[3]
        children == SelectSeq(ReadDir(fs), Selected)
    IN  [i \in 1..Len(children) |->
            IF IsDir(fs[children[i]]) THEN children[i] \o <<"/">> ELSE children[i]]

\* C23: a GetListOfDirectoryContents that returns nil returns exactly the
\* selected children, in the order of the listing, each once; and called
\* again with the other form of the directory path (with or without the
\* trailing separator) and the same patterns and kinds, it returns the same
\* list.
C23_ListsSelectedChildrenOnce ==
    [][ /\ (lastOp' = "GetListOfDirectoryContents" /\ lastErr' = "nil")
            => /\ lastRes' = SelectedChildren'
               /\ \A i, j \in 1..Len(lastRes') : lastRes'[i] = lastRes'[j] => i = j
        /\ (/\ lastOp = "GetListOfDirectoryContents" /\ lastErr = "nil"
            /\ lastOp' = "GetListOfDirectoryContents" /\ lastErr' = "nil"
            /\ lastArg'[1] # lastArg[1]
            /\ \A k \in 2..4 : lastArg'[k] = lastArg[k])
            => lastRes' = lastRes
      ]_vars

\* a directory and a file, each matched by one or two of two patterns, have
\* been listed through the path with the trailing separator
C23_Witness ==
    /\ lastOp = "GetListOfDirectoryContents"
    /\ lastErr = "nil"
    /\ lastArg = <<Listed \o <<"/">>, <<"a", ".">>, TRUE, TRUE>>
    /\ lastRes = << <<"A", "/">>, <<"a">> >>

---------------------------------------------------------------------------
\* the number of lines of b: its newlines, and one more for bytes behind the
\* last newline
NumLines(b) == CountNL(b) + (IF Len(b) > 0 /\ b[Len(b)] # NL THEN 1 ELSE 0)

C26_EmptyFileHasEmptyFirstLine ==
    [][(/\ fd.state = "open" /\ Content = <<>>
        /\ lastOp' = "GetFirstLine" /\ lastErr' # "EIO")
          => (lastErr' = "nil" /\ lastRes' = <<>>)]_vars

\* GetFirstLine has panicked on an empty file
C26_Witness ==
    /\ lastOp = "GetFirstLine" /\ lastErr = "panic"
    /\ fd.state = "open"
    /\ Content = <<>>

\* C27: a RemoveFirstLine on an open handle that meets no I/O error returns
\* without an error; it leaves a file whose content held no newline (one
\* unterminated line, or nothing) empty, and a file that was not empty with
\* fewer lines than it had: so calls that succeed one after the other empty
\* the file and then keep it empty.
C27_RemoveFirstLineReducesLines ==
    (lastOp = "RemoveFirstLine" /\ pc = "idle" /\ fd.state = "open" /\ lastErr # "EIO")
        => /\ lastErr = "nil"
           /\ ~HasNL(orig) => Content = <<>>
           /\ orig # <<>> => NumLines(Content) < NumLines(orig)
           /\ orig = <<>> => Content = <<>>

\* RemoveFirstLine has emptied a file that held one unterminated line
C27_Witness ==
    /\ lastOp = "RemoveFirstLine" /\ pc = "idle" /\ lastErr = "nil"
    /\ orig = <<"a", "b">>
    /\ Content = <<>>

---------------------------------------------------------------------------
\* C28: a step of RenameFile that returns an error leaves the target path
\* with what it named.
C28_FailedRenameKeepsTarget ==
    [][(lastOp' = "RenameFile" /\ lastErr' # "nil")
          => Lookup(fs', LastBareTarget') = Lookup(fs, LastBareTarget')]_vars

\* C29: a step of CopyFile leaves the source path with what it named,
\* whatever the destination names.
C29_CopyKeepsSource ==
    [][lastOp' = "CopyFile"
          => Lookup(fs', LastSource') = Lookup(fs, LastSource')]_vars

\* CopyFile of a file onto itself has returned nil
C29_Witness ==
    /\ lastOp = "CopyFile"
    /\ lastErr = "nil"
    /\ LastSource = LastTarget
    /\ Lookup(fs, LastSource) = RegularFile(<<>>)

\* C30: a step of GetFileContents(fileName) changes no file, and for a path
\* that names no file it returns an error.
C30_ReadByNameIsReadOnly ==
    [][lastOp' = "GetFileContentsByName"
          => /\ fs' = fs
             /\ ~fs[lastArg'[1]].exists => lastErr' # "nil"]_vars

====
